---------------------------- MODULE Spec2Model ----------------------------
(***************************************************************************)
(* A model of the Doodstream extension (src/main.js): the pipeline         *)
(*   getDirectLink: fetch embed page -> extract pass_md5 URL and token ->  *)
(*                  fetch pass_md5 URL -> build the direct link            *)
(*   getMetadata:   getDirectLink, then the file name and fixed fields.    *)
(*                                                                         *)
(* JavaScript strings are sequences of one-character strings, so that the  *)
(* regular expressions, trim(), URL resolution, split() and the template   *)
(* strings are computed character by character.  null is the value Null.   *)
(* Each await of the code is a position of pc; the settling of a fetch, of *)
(* a body read and the firing of a timer are the environment's actions.    *)
(***************************************************************************)
EXTENDS Integers, Sequences, FiniteSets

(***************************************************************************)
(* Bounds of the model                                                     *)
(***************************************************************************)
\* getDirectLink/getMetadata invocations made one after the other
MaxCalls == 2

(***************************************************************************)
(* Strings                                                                 *)
(***************************************************************************)
Null == <<"<null>">>

\* JavaScript's !x for a string-or-null x
Falsy(x) == x = Null \/ x = <<>>

Range(s) == {s[i] : i \in 1..Len(s)}

\* s has p at (1-based) position i
MatchAt(s, p, i) ==
    /\ i >= 1
    /\ i + Len(p) - 1 <= Len(s)
    /\ SubSeq(s, i, i + Len(p) - 1) = p

\* String.prototype.startsWith
startsWith(s, p) == MatchAt(s, p, 1)

\* String.prototype.includes
includes(s, p) == \E i \in 1..(Len(s) + 1) : MatchAt(s, p, i)

Min(S) == CHOOSE x \in S : \A y \in S : x <= y

Max(S) == CHOOSE x \in S : \A y \in S : x >= y

\* String.prototype.charAt: "" outside the string (idx is 0-based)
charAt(s, idx) == IF idx >= 0 /\ idx < Len(s) THEN <<s[idx + 1]>> ELSE <<>>

\* the decimal digits of a natural number, as template strings print it
RECURSIVE ToDecimal(_)
ToDecimal(n) ==
    LET d == <<"0", "1", "2", "3", "4", "5", "6", "7", "8", "9">>[(n % 10) + 1]
    IN  IF n < 10 THEN <<d>> ELSE ToDecimal(n \div 10) \o <<d>>

\* the white space String.prototype.trim removes (those the bodies use)
WhiteSpace == {" ", "\t", "\n", "\r"}

\* String.prototype.trim
trim(s) ==
    LET keep == {i \in 1..Len(s) : s[i] \notin WhiteSpace}
    IN  IF keep = {} THEN <<>> ELSE SubSeq(s, Min(keep), Max(keep))

\* String.prototype.split(sep) for a one-character sep
RECURSIVE split(_, _)
split(s, sep) ==
    LET at == {i \in 1..Len(s) : s[i] = sep}
    IN  IF at = {} THEN <<s>>
        ELSE <<SubSeq(s, 1, Min(at) - 1)>>
                 \o split(SubSeq(s, Min(at) + 1, Len(s)), sep)

(***************************************************************************)
(* Constants of the program                                                *)
(***************************************************************************)
DOODSTREAM_BASE_URL ==
    <<"h", "t", "t", "p", "s", ":", "/", "/", "d", "o", "o", "d", ".", "l",
      "i">>

UpperCase ==
    <<"A", "B", "C", "D", "E", "F", "G", "H", "I", "J", "K", "L", "M", "N",
      "O", "P", "Q", "R", "S", "T", "U", "V", "W", "X", "Y", "Z">>

LowerCase ==
    <<"a", "b", "c", "d", "e", "f", "g", "h", "i", "j", "k", "l", "m", "n",
      "o", "p", "q", "r", "s", "t", "u", "v", "w", "x", "y", "z">>

Digits == <<"0", "1", "2", "3", "4", "5", "6", "7", "8", "9">>

RANDOM_STRING_CHARS == UpperCase \o LowerCase \o Digits

\* the character class [a-zA-Z0-9]
AlphaNumeric == Range(LowerCase) \cup Range(UpperCase) \cup Range(Digits)

\* PASS_MD5_PATTERN: the literal opening $.get(' , a capture group of
\* non-quote characters that holds the literal segment, the closing quote
PASS_MD5_PATTERN ==
    [kind    |-> "quoted",
     open    |-> <<"$", ".", "g", "e", "t", "(", "'">>,
     segment |-> <<"/", "p", "a", "s", "s", "_", "m", "d", "5", "/">>,
     close   |-> "'"]

\* TOKEN_PATTERN: the literal opening token= , a capture group that is a
\* non-empty greedy run of letters and digits
TOKEN_PATTERN ==
    [kind  |-> "run",
     open  |-> <<"t", "o", "k", "e", "n", "=">>,
     class |-> AlphaNumeric]

(***************************************************************************)
(* Regular expression matching: content.match(pattern)                     *)
(***************************************************************************)
\* The capture of an attempt of the pattern at position i, or Null.
\* "quoted": no part of the capture holds a quote and a quote must
\* follow, so the capture is the text up to the next quote, and it must
\* hold the segment.  "run": the longest run of the class, non-empty.
CaptureAt(pattern, content, i) ==
    LET start == i + Len(pattern.open)
    IN  IF ~MatchAt(content, pattern.open, i) THEN Null
        ELSE IF pattern.kind = "quoted" THEN
            LET quotes == {q \in start..Len(content) :
                               content[q] = pattern.close}
            IN  IF quotes = {} THEN Null
                ELSE LET cap == SubSeq(content, start, Min(quotes) - 1)
                     IN  IF includes(cap, pattern.segment) THEN cap ELSE Null
        ELSE
            LET ends == {e \in start..Len(content) :
                            \A k \in start..e : content[k] \in pattern.class}
            IN  IF ends = {} THEN Null
                ELSE SubSeq(content, start, Max(ends))

\* _extractData: the first capture group of the leftmost match, or null
_extractData(pattern, content) ==
    LET hits == {i \in 1..Len(content) :
                    CaptureAt(pattern, content, i) # Null}
    IN  IF hits = {} THEN Null ELSE CaptureAt(pattern, content, Min(hits))

(***************************************************************************)
(* URLs                                                                    *)
(***************************************************************************)
Letters == Range(LowerCase) \cup Range(UpperCase)

\* the length of the scheme "letter (letter | digit | + | - | .)* :" that
\* url begins with, the colon included, or 0
SchemeLen(url) ==
    LET colons == {k \in 2..Len(url) :
                     /\ url[k] = ":"
                     /\ url[1] \in Letters
                     /\ \A j \in 2..(k - 1) :
                            url[j] \in AlphaNumeric \cup {"+", "-", "."}}
    IN  IF colons = {} THEN 0 ELSE Min(colons)

\* an absolute URL: a scheme, then "//" and a non-empty host
IsAbsoluteUrl(url) ==
    /\ SchemeLen(url) > 0
    /\ MatchAt(url, <<"/", "/">>, SchemeLen(url) + 1)
    /\ Len(url) > SchemeLen(url) + 2
    /\ url[SchemeLen(url) + 3] \notin {"/", "?", "#"}

\* the index of the last character of the authority of an absolute URL
AuthorityEnd(url) ==
    LET from == SchemeLen(url) + 3
        stops == {k \in from..Len(url) : url[k] \in {"/", "?", "#"}}
    IN  IF stops = {} THEN Len(url) ELSE Min(stops) - 1

\* URL.origin of an absolute URL: scheme://host
Origin(url) == SubSeq(url, 1, AuthorityEnd(url))

\* URL.pathname of an absolute URL: from the authority to the query or the
\* fragment; the empty path of an http(s) URL is "/"
pathname(url) ==
    LET from == AuthorityEnd(url) + 1
        stops == {k \in from..Len(url) : url[k] \in {"?", "#"}}
        path == SubSeq(url, from,
                       IF stops = {} THEN Len(url) ELSE Min(stops) - 1)
    IN  IF path = <<>> THEN <<"/">> ELSE path

\* code points a host may not hold (those the pages use)
ForbiddenHostChars == {" ", "<", ">", "[", "]", "^", "|", "%"}

UrlTypeError == <<"<TypeError: Invalid URL>">>

\* new URL(rel, base).href for an http(s) base without a path, on inputs
\* without dot segments, backslashes, white space at the ends or characters
\* that are percent-encoded:
\*   rel has a scheme of its own   -> rel
\*   //host/path  (scheme-relative) -> the base's scheme, then rel; a
\*                                     TypeError when the host is invalid
\*   /path        (path-absolute)  -> the base's origin, then rel
\*   anything else (path-relative) -> the base's origin, "/", then rel
NewURL(rel, base) ==
    LET scheme == SubSeq(base, 1, SchemeLen(base))
    IN  IF SchemeLen(rel) > 0 THEN rel
        ELSE IF startsWith(rel, <<"/", "/">>) THEN
            LET abs == scheme \o rel
                host == SubSeq(abs, SchemeLen(abs) + 3, AuthorityEnd(abs))
            IN  IF host = <<>> \/ Range(host) \cap ForbiddenHostChars # {}
                THEN UrlTypeError
                ELSE abs
        ELSE IF startsWith(rel, <<"/">>) THEN Origin(base) \o rel
        ELSE Origin(base) \o <<"/">> \o rel

(***************************************************************************)
(* Errors and results                                                      *)
(***************************************************************************)
\* new Error(`${message}${arg}`), or an error the runtime throws
Err(message, arg) == [type |-> "error", message |-> message, arg |-> arg]

Ok(value) == [type |-> "ok", value |-> value]

None == [type |-> "none"]

(***************************************************************************)
(* The methods without awaits                                              *)
(***************************************************************************)
\* _getHeaders
_getHeaders ==
    [UserAgent |-> "Mozilla/5.0 (Windows NT 10.0; Win64; x64) AppleWebKit/537.36 (KHTML, like Gecko) Chrome/120.0.0.0 Safari/537.36",
     Referer |-> DOODSTREAM_BASE_URL \o <<"/">>,
     Origin |-> "https://dood.li",
     Accept |-> "*/*",
     AcceptLanguage |-> "en-US,en;q=0.9"]

\* Math.floor(Math.random() * n), Math.random() being the fraction
\* r[1] / r[2] of [0, 1)
RandomIndex(r, n) == (r[1] * n) \div r[2]

\* _generateRandomString(length): the loop, draws[i] being the value of the
\* i-th call of Math.random()
RECURSIVE GenerateLoop(_, _, _, _)
GenerateLoop(i, length, draws, result) ==
    IF i < length
    THEN GenerateLoop(i + 1, length, draws,
             result \o charAt(RANDOM_STRING_CHARS,
                              RandomIndex(draws[i + 1],
                                          Len(RANDOM_STRING_CHARS))))
    ELSE result

_generateRandomString(length, draws) == GenerateLoop(0, length, draws, <<>>)

\* _extractPassMd5Url(content, embedUrl): the full URL, or what it throws
_extractPassMd5Url(content, embedUrl) ==
    LET passMd5Url == _extractData(PASS_MD5_PATTERN, content)
    IN  IF Falsy(passMd5Url)
        THEN Err("pass_md5 URL not found in ", embedUrl)
        ELSE IF ~startsWith(passMd5Url, <<"h", "t", "t", "p">>)
        THEN LET href == NewURL(passMd5Url, DOODSTREAM_BASE_URL)
             IN  IF href = UrlTypeError
                 THEN Err("TypeError: Invalid URL", <<>>)
                 ELSE Ok(href)
        ELSE Ok(passMd5Url)

\* _extractToken without its check of the match
_extractToken_unchecked(content, embedUrl) ==
    Ok(_extractData(TOKEN_PATTERN, content))

\* _extractToken(content, embedUrl): the token, or what it throws
_extractToken(content, embedUrl) ==
    LET token == _extractData(TOKEN_PATTERN, content)
    IN  IF Falsy(token)
        THEN Err("Token not found in ", embedUrl)
        ELSE Ok(token)

\* the length getDirectLink's builder asks of _generateRandomString
RandomLength == 10

\* _buildDirectLink with the expiry left in milliseconds
_buildDirectLink_milliseconds(videoBaseUrl, token, draws, now) ==
    LET randomString == _generateRandomString(RandomLength, draws)
        expiry == now
    IN  [randomString |-> randomString,
         expiry |-> expiry,
         directLink |-> videoBaseUrl \o randomString
                          \o <<"?", "t", "o", "k", "e", "n", "=">> \o token
                          \o <<"&", "e", "x", "p", "i", "r", "y", "=">>
                          \o ToDecimal(expiry)]

\* _buildDirectLink with the random string left out of the link
_buildDirectLink_noRandom(videoBaseUrl, token, draws, now) ==
    LET randomString == _generateRandomString(RandomLength, draws)
        expiry == now \div 1000
    IN  [randomString |-> randomString,
         expiry |-> expiry,
         directLink |-> videoBaseUrl
                          \o <<"?", "t", "o", "k", "e", "n", "=">> \o token
                          \o <<"&", "e", "x", "p", "i", "r", "y", "=">>
                          \o ToDecimal(expiry)]

\* _buildDirectLink(videoBaseUrl, token), draws and now being what
\* Math.random() and Date.now() give it
_buildDirectLink(videoBaseUrl, token, draws, now) ==
    LET randomString == _generateRandomString(RandomLength, draws)
        expiry == now \div 1000
    IN  [randomString |-> randomString,
         expiry |-> expiry,
         directLink |-> videoBaseUrl \o randomString
                          \o <<"?", "t", "o", "k", "e", "n", "=">> \o token
                          \o <<"&", "e", "x", "p", "i", "r", "y", "=">>
                          \o ToDecimal(expiry)]

\* _getVideoBaseUrl with the emptiness check made before the trim
VideoBaseUrlOf_checkBeforeTrim(text) ==
    IF Falsy(text)
    THEN Err("Empty video base URL received", <<>>)
    ELSE Ok(trim(text))

\* _getVideoBaseUrl after the request: the trimmed body, or what it throws
VideoBaseUrlOf(text) ==
    LET videoBaseUrl == trim(text)
    IN  IF Falsy(videoBaseUrl)
        THEN Err("Empty video base URL received", <<>>)
        ELSE Ok(videoBaseUrl)

\* getMetadata after getDirectLink: the object it returns
MetadataOf(url, mp4Url) ==
    LET pathParts == split(pathname(url), "/")
        last == pathParts[Len(pathParts)]
        fileId == IF Falsy(last) THEN <<"v", "i", "d", "e", "o">> ELSE last
        fileName == <<"d", "o", "o", "d", "s", "t", "r", "e", "a", "m", "_">>
                      \o fileId \o <<".", "m", "p", "4">>
    IN  [mp4 |-> mp4Url,
         name |-> fileName,
         quality |-> "Unknown",
         size |-> Null,
         headers |-> _getHeaders]

\* _makeRequest without its status check
ResponseOk_any(status) == TRUE

\* response.ok
ResponseOk(status) == status >= 200 /\ status <= 299

\* getDirectLink checking its argument against null only
InputRejected_nullOnly(embededDoodstreamLink) == embededDoodstreamLink = Null

\* getDirectLink's check of its argument
InputRejected(embededDoodstreamLink) == Falsy(embededDoodstreamLink)

(***************************************************************************)
(* The inputs and the remote server the model runs against                 *)
(***************************************************************************)
GetCall(fragment) == PASS_MD5_PATTERN.open \o fragment \o <<"'", ")">>

Md5Path(prefix) == prefix \o PASS_MD5_PATTERN.segment \o <<"k", "1">>

TokenParam(value) == <<"?">> \o TOKEN_PATTERN.open \o value \o <<"&">>

UrlPlain == DOODSTREAM_BASE_URL \o <<"/", "e", "/", "a", "b", "1">>

UrlTrailingSlash == UrlPlain \o <<"/">>

UrlNoPath == DOODSTREAM_BASE_URL

\* what a caller may pass: null, "", and well-formed absolute URLs
EmbedUrls == {Null, <<>>, UrlPlain, UrlTrailingSlash, UrlNoPath}

PageRelative == GetCall(Md5Path(<<>>)) \o TokenParam(<<"t", "K", "9">>)

PageAbsolute ==
    GetCall(Md5Path(<<"h", "t", "t", "p", "s", ":", "/", "/", "d", ".", "i",
                      "o">>))
        \o TokenParam(<<"t", "K", "9">>)

PageNoToken == GetCall(Md5Path(<<>>))

PageNoPassMd5 == TokenParam(<<"t", "K", "9">>)

PageNeither == <<"<", "p", ">">>

\* a relative path that begins with the letters http
PageHttpRelative ==
    GetCall(Md5Path(<<"h", "t", "t", "p", "x">>)) \o TokenParam(<<"a", "1">>)

\* a scheme-relative fragment naming another host
PageSchemeRelative ==
    GetCall(Md5Path(<<"/", "/", "e", "v", ".", "i", "l">>))
        \o TokenParam(<<"a", "1">>)

\* a scheme-relative fragment whose host is invalid
PageBadHost ==
    GetCall(Md5Path(<<"/", "/", "a", " ", "b">>)) \o TokenParam(<<"a", "1">>)

PageBadHostNoToken == GetCall(Md5Path(<<"/", "/", "a", " ", "b">>))

PagePathRelative == GetCall(Md5Path(<<"x">>)) \o TokenParam(<<"a", "1">>)

\* token= followed by no letter or digit
PageEmptyToken == GetCall(Md5Path(<<>>)) \o TokenParam(<<>>)

\* the quote of the call is never closed
PageUnclosed ==
    PASS_MD5_PATTERN.open \o Md5Path(<<>>) \o TokenParam(<<"t", "K", "9">>)

\* an earlier $.get call that does not name pass_md5
PageTwoCalls == GetCall(<<"/", "a">>) \o PageRelative

\* the first token= of the page is inside the pass_md5 fragment
PageTokenInFragment ==
    GetCall(Md5Path(<<>>) \o TokenParam(<<"q", "1">>))
        \o TokenParam(<<"t", "K", "9">>)

Pages ==
    {PageRelative, PageAbsolute, PageNoToken, PageNoPassMd5, PageNeither,
     PageHttpRelative, PageSchemeRelative, PageBadHost, PageBadHostNoToken,
     PagePathRelative, PageEmptyToken, PageUnclosed, PageTwoCalls,
     PageTokenInFragment}

BodyBase ==
    <<"h", "t", "t", "p", "s", ":", "/", "/", "v", ".", "i", "o", "/", "m",
      "/">>

\* what the pass_md5 endpoint may answer
Bodies == {<<>>, <<" ", "\n", "\t">>, BodyBase,
           <<"\n">> \o BodyBase \o <<" ">>}

\* response statuses
Statuses == {200, 404, 500}

\* values of Math.random(), as fractions <<numerator, denominator>>
RandomValues == {<<0, 1>>, <<61, 62>>}

\* the sequences of values RandomLength calls of Math.random() may give:
\* any value first, then any one value
RandomStreams ==
    {[k \in 1..RandomLength |-> IF k = 1 THEN a ELSE b] :
        a \in RandomValues, b \in RandomValues}

\* values of Date.now(), in milliseconds
ClockValues == {61999, 62000}

(***************************************************************************)
(* State                                                                   *)
(***************************************************************************)
VARIABLES
    page,          \* the server: the embed page's text
    body,          \* the server: the pass_md5 endpoint's text
    now,           \* Date.now()
    calls,         \* invocations made so far
    pc,            \* "idle", "fetch1", "text1", "fetch2", "text2", "done"
    api,           \* "getDirectLink" or "getMetadata"
    input,         \* the argument of the invocation
    requests,      \* the fetches the invocation issued: [url, headers]
    statuses,      \* the statuses of the responses it received
    timersArmed,   \* the setTimeout calls of the invocation
    timer,         \* timeoutId of the latest _makeRequest:
                   \*   "none", "armed", "cleared", "fired"
    dangling,      \* armed timers of earlier invocations
    content,       \* getDirectLink's locals
    passMd5Url,
    token,
    videoBaseUrl,
    built,         \* what _buildDirectLink computed, or None
    result,        \* what the invocation returned or threw, or None
    prev           \* the latest earlier invocation that returned, or None

vars == <<page, body, now, calls, pc, api, input, requests, statuses,
          timersArmed, timer, dangling, content, passMd5Url, token,
          videoBaseUrl, built, result, prev>>

server == <<page, body>>

locals == <<content, passMd5Url, token, videoBaseUrl, built>>

Init ==
    /\ page \in Pages
    /\ body \in Bodies
    /\ now = Min(ClockValues)
    /\ calls = 0
    /\ pc = "idle"
    /\ api = "none"
    /\ input = Null
    /\ requests = <<>>
    /\ statuses = <<>>
    /\ timersArmed = 0
    /\ timer = "none"
    /\ dangling = 0
    /\ content = Null
    /\ passMd5Url = Null
    /\ token = Null
    /\ videoBaseUrl = Null
    /\ built = None
    /\ result = None
    /\ prev = None

(***************************************************************************)
(* Actions                                                                 *)
(***************************************************************************)
\* _makeRequest(url, headers) up to its await: a controller, the timeout
\* armed, the fetch issued
MakeRequest(url, headers, earlier) ==
    /\ timer' = "armed"
    /\ timersArmed' = earlier + 1
    /\ requests' = Append(IF earlier = 0 THEN <<>> ELSE requests,
                          [url |-> url, headers |-> headers])

\* getDirectLink(url) or getMetadata(url) is called, up to its first await
Invoke(a, url) ==
    /\ pc \in {"idle", "done"}
    /\ calls < MaxCalls
    /\ calls' = calls + 1
    /\ api' = a
    /\ input' = url
    /\ prev' = IF pc = "done" /\ result.type = "ok"
               THEN [input |-> input, built |-> built]
               ELSE prev
    /\ dangling' = IF timer = "armed" THEN dangling + 1 ELSE dangling
    /\ content' = Null
    /\ passMd5Url' = Null
    /\ token' = Null
    /\ videoBaseUrl' = Null
    /\ built' = None
    /\ statuses' = <<>>
    /\ IF InputRejected(url)
       THEN /\ result' = Err("Embed URL cannot be empty", <<>>)
            /\ pc' = "done"
            /\ requests' = <<>>
            /\ timersArmed' = 0
            /\ timer' = "none"
       ELSE /\ result' = None
            /\ pc' = "fetch1"
            /\ MakeRequest(url, _getHeaders, 0)
    /\ UNCHANGED <<server, now>>

\* the awaited fetch resolves with a response: clearTimeout, the status
\* check, and for a success status the read of the body begins
FetchResolves(status) ==
    /\ pc \in {"fetch1", "fetch2"}
    /\ timer = "armed"
    /\ timer' = "cleared"
    /\ statuses' = Append(statuses, status)
    /\ IF ResponseOk(status)
       THEN /\ pc' = IF pc = "fetch1" THEN "text1" ELSE "text2"
            /\ result' = result
       ELSE /\ pc' = "done"
            /\ result' = Err("HTTP error! status: ", ToDecimal(status))
    /\ UNCHANGED <<server, now, calls, api, input, requests, timersArmed,
                   dangling, locals, prev>>

\* the awaited fetch rejects (a network error): the catch blocks rethrow
FetchRejects ==
    /\ pc \in {"fetch1", "fetch2"}
    /\ timer = "armed"
    /\ pc' = "done"
    /\ result' = Err("TypeError: fetch failed", <<>>)
    /\ UNCHANGED <<server, now, calls, api, input, requests, statuses,
                   timersArmed, timer, dangling, locals, prev>>

\* the timeout of the latest request fires: controller.abort(), which
\* rejects the fetch if it is still awaited
TimerFires ==
    /\ timer = "armed"
    /\ timer' = "fired"
    /\ IF pc \in {"fetch1", "fetch2"}
       THEN /\ pc' = "done"
            /\ result' = Err("AbortError: The operation was aborted", <<>>)
       ELSE UNCHANGED <<pc, result>>
    /\ UNCHANGED <<server, now, calls, api, input, requests, statuses,
                   timersArmed, dangling, locals, prev>>

\* a timeout left armed by an earlier invocation fires: abort() of a
\* controller whose fetch has settled
DanglingTimerFires ==
    /\ dangling > 0
    /\ dangling' = dangling - 1
    /\ UNCHANGED <<server, now, calls, pc, api, input, requests, statuses,
                   timersArmed, timer, locals, result, prev>>

\* response.text() of the embed page resolves: both extractions and
\* _getVideoBaseUrl up to the await of its request
PageTextResolves ==
    /\ pc = "text1"
    /\ content' = page
    /\ LET md5 == _extractPassMd5Url(page, input)
           tok == _extractToken(page, input)
       IN  IF md5.type = "error"
           THEN /\ result' = md5
                /\ pc' = "done"
                /\ UNCHANGED <<passMd5Url, token, requests, timersArmed,
                               timer>>
           ELSE IF tok.type = "error"
           THEN /\ passMd5Url' = md5.value
                /\ result' = tok
                /\ pc' = "done"
                /\ UNCHANGED <<token, requests, timersArmed, timer>>
           ELSE /\ passMd5Url' = md5.value
                /\ token' = tok.value
                /\ result' = result
                /\ pc' = "fetch2"
                /\ MakeRequest(md5.value, _getHeaders, timersArmed)
    /\ UNCHANGED <<server, now, calls, api, input, statuses, dangling,
                   videoBaseUrl, built, prev>>

\* response.text() of the pass_md5 response resolves: trim, the emptiness
\* check, _buildDirectLink, and getMetadata's object when it is the caller
Md5TextResolves ==
    /\ pc = "text2"
    /\ pc' = "done"
    /\ LET base == VideoBaseUrlOf(body)
       IN  IF base.type = "error"
           THEN /\ result' = base
                /\ UNCHANGED <<videoBaseUrl, built>>
           ELSE /\ videoBaseUrl' = base.value
                /\ \E draws \in RandomStreams :
                     built' = _buildDirectLink(base.value, token, draws, now)
                /\ result' = IF api = "getMetadata"
                             THEN Ok(MetadataOf(input, built'.directLink))
                             ELSE Ok(built'.directLink)
    /\ UNCHANGED <<server, now, calls, api, input, requests, statuses,
                   timersArmed, timer, dangling, content, passMd5Url, token,
                   prev>>

\* response.text() rejects: the connection fails while the body is read
TextRejects ==
    /\ pc \in {"text1", "text2"}
    /\ pc' = "done"
    /\ result' = Err("TypeError: terminated", <<>>)
    /\ UNCHANGED <<server, now, calls, api, input, requests, statuses,
                   timersArmed, timer, dangling, locals, prev>>

\* time passes
Tick ==
    /\ \E t \in ClockValues : t > now /\ now' = t
    /\ UNCHANGED <<server, calls, pc, api, input, requests, statuses,
                   timersArmed, timer, dangling, locals, result, prev>>

Next ==
    \/ \E a \in {"getDirectLink", "getMetadata"}, url \in EmbedUrls :
          Invoke(a, url)
    \/ \E status \in Statuses : FetchResolves(status)
    \/ FetchRejects
    \/ TimerFires
    \/ DanglingTimerFires
    \/ PageTextResolves
    \/ Md5TextResolves
    \/ TextRejects
    \/ Tick

Spec == Init /\ [][Next]_vars

\* an armed timer fires in the end; nothing makes a server finish a body
\* and nothing makes a caller call again
FairSpec == Spec /\ WF_vars(TimerFires) /\ WF_vars(DanglingTimerFires)

(***************************************************************************)
(* Properties                                                              *)
(***************************************************************************)
InFlight == pc \in {"fetch1", "text1", "fetch2", "text2"}

Returned == pc = "done" /\ result.type = "ok"

Threw(message, arg) == pc = "done" /\ result = Err(message, arg)

\* the Direct Link of an invocation that returned
ReturnedLink ==
    IF api = "getMetadata" THEN result.value.mp4 ELSE result.value

SuccessStatus(status) == status \in 200..299

\* both responses came with a success status
BothResponsesOk ==
    /\ Len(statuses) = 2
    /\ SuccessStatus(statuses[1])
    /\ SuccessStatus(statuses[2])

TokenKey == <<"?", "t", "o", "k", "e", "n", "=">>

ExpiryKey == <<"&", "e", "x", "p", "i", "r", "y", "=">>

\* C1: a Direct Link that is returned is the trimmed body of the pass_md5
\* endpoint, then 10 characters of [A-Za-z0-9], then "?token=", the first
\* token of the page, "&expiry=" and the decimal Unix time in seconds of a
\* moment of the invocation, and nothing else; and an invocation whose two
\* responses came with a success status and whose pass_md5 body is not
\* blank fails only if the read of that body fails.
C1_DirectLinkFormat ==
    LET B == trim(body)
        link == ReturnedLink
        suffix == SubSeq(link, Len(B) + 1, Len(B) + 10)
        tail == SubSeq(link, Len(B) + 11, Len(link))
    IN  /\ Returned =>
              /\ ~Falsy(input)
              /\ B # <<>>
              /\ SubSeq(link, 1, Len(B)) = B
              /\ Len(suffix) = 10
              /\ \A i \in 1..10 : suffix[i] \in AlphaNumeric
              /\ \E t \in ClockValues :
                    /\ t <= now
                    /\ tail = TokenKey \o _extractData(TOKEN_PATTERN, page)
                                \o ExpiryKey \o ToDecimal(t \div 1000)
        /\ (pc = "done" /\ BothResponsesOk /\ B # <<>>
              /\ result.type = "error")
               => result = Err("TypeError: terminated", <<>>)

C1_Witness ==
    /\ Returned
    /\ api = "getDirectLink"
    /\ trim(body) # body
    /\ page = PageTokenInFragment

\* C2: an invocation with "" or null has thrown "Embed URL cannot be empty"
\* as soon as it was made, has issued no fetch and has armed no timer.
C2_InvalidInputNoNetwork ==
    (pc # "idle" /\ Falsy(input)) =>
        /\ Threw("Embed URL cannot be empty", <<>>)
        /\ requests = <<>>
        /\ statuses = <<>>
        /\ timersArmed = 0
        /\ timer = "none"

C2_Witness ==
    /\ pc = "done"
    /\ input = <<>>
    /\ prev # None
    /\ requests = <<>>

\* C3 as claimed: whenever the page that was read has no token match, the
\* invocation throws the error naming the token and the embed URL, after
\* one request only, whether or not the page has a pass_md5 match.
C3_TokenErrorAlways ==
    (content # Null /\ _extractData(TOKEN_PATTERN, content) = Null) =>
        /\ Threw("Token not found in ", input)
        /\ Len(requests) = 1

\* C3 amended: whenever the page that was read has no token match, the
\* invocation has failed after one request only; the error names the token
\* and the embed URL if the pass_md5 URL, which is extracted first, was
\* obtained, and otherwise it is the error of that extraction: the one
\* naming the pass_md5 URL and the embed URL, or the TypeError of the URL
\* constructor.
C3_TokenErrorAfterPassMd5 ==
    (content # Null /\ _extractData(TOKEN_PATTERN, content) = Null) =>
        /\ pc = "done"
        /\ Len(requests) = 1
        /\ timersArmed = 1
        /\ token = Null
        /\ IF passMd5Url # Null
           THEN result = Err("Token not found in ", input)
           ELSE IF _extractData(PASS_MD5_PATTERN, content) = Null
           THEN result = Err("pass_md5 URL not found in ", input)
           ELSE result = Err("TypeError: Invalid URL", <<>>)

C3_Witness ==
    /\ Threw("Token not found in ", input)
    /\ content = PageNoToken
    /\ passMd5Url # Null
    /\ Len(requests) = 1

\* C4: when the pass_md5 endpoint's body is blank, no Direct Link is built
\* or returned, and once that body has been read the invocation has thrown
\* "Empty video base URL received".
C4_EmptyResponse ==
    trim(body) = <<>> =>
        /\ built = None
        /\ videoBaseUrl = Null
        /\ result.type # "ok"
        /\ (pc = "done" /\ BothResponsesOk
              /\ result # Err("TypeError: terminated", <<>>))
               => result = Err("Empty video base URL received", <<>>)

C4_Witness ==
    /\ Threw("Empty video base URL received", <<>>)
    /\ body = <<" ", "\n", "\t">>
    /\ built = None

\* C5: an invocation issues at most two requests and arms one timer for
\* each; no response is awaited twice; the second request is issued only
\* after the first response came with a success status and both the
\* pass_md5 URL and the token were extracted from its body, and it goes to
\* that URL; and an invocation that has failed has ended, with as many
\* requests as the failing step had seen.
C5_SequentialNoRetry ==
    /\ Len(requests) <= 2
    /\ timersArmed = Len(requests)
    /\ Len(statuses) <= Len(requests)
    /\ pc = "fetch1" => (Len(requests) = 1 /\ statuses = <<>>)
    /\ pc = "text1" => (Len(requests) = 1 /\ Len(statuses) = 1)
    /\ pc = "fetch2" => (Len(requests) = 2 /\ Len(statuses) = 1)
    /\ pc = "text2" => (Len(requests) = 2 /\ Len(statuses) = 2)
    /\ Len(requests) >= 1 => requests[1].url = input
    /\ Len(requests) = 2 =>
          /\ SuccessStatus(statuses[1])
          /\ content # Null
          /\ _extractData(PASS_MD5_PATTERN, content) # Null
          /\ token # Null
          /\ token = _extractData(TOKEN_PATTERN, content)
          /\ requests[2].url = passMd5Url
    /\ result.type = "error" =>
          /\ pc = "done"
          /\ Len(statuses) >= 1 =>
                (SuccessStatus(statuses[Len(statuses)])
                   \/ result = Err("HTTP error! status: ",
                                   ToDecimal(statuses[Len(statuses)])))
          /\ (Len(statuses) = 1 /\ ~SuccessStatus(statuses[1]))
                => Len(requests) = 1
          /\ result.message \in {"pass_md5 URL not found in ",
                                 "Token not found in ",
                                 "TypeError: Invalid URL"}
                => Len(requests) = 1

C5_Witness ==
    /\ pc = "done"
    /\ Len(requests) = 2
    /\ statuses = <<200, 500>>
    /\ result = Err("HTTP error! status: ", <<"5", "0", "0">>)

\* C6: once _makeRequest has returned or thrown, no timer it armed is
\* still pending.
C6_TimerDisarmed ==
    /\ pc \notin {"fetch1", "fetch2"} => timer # "armed"
    /\ dangling = 0

\* C7 as claimed: two invocations on the same embed URL and the same
\* fetched content that both return never return the same Direct Link.
C7_LinksAlwaysDiffer ==
    (Returned /\ prev # None /\ prev.input = input) =>
        prev.built.directLink # built.directLink

\* C7 amended: two invocations on the same embed URL and the same fetched
\* content that both return give links that are the same base URL and end
\* in the same token parameter, and that are equal exactly when the two
\* random suffixes and the two expiry seconds are equal.
C7_LinksDifferUnlessSameDraw ==
    (Returned /\ prev # None /\ prev.input = input) =>
        LET a == prev.built
            b == built
            B == trim(body)
        IN  /\ b.directLink = ReturnedLink
            /\ SubSeq(a.directLink, 1, Len(B)) = SubSeq(b.directLink, 1, Len(B))
            /\ Len(a.randomString) = Len(b.randomString)
            /\ a.expiry <= b.expiry
            /\ (a.directLink = b.directLink)
                 <=> (a.randomString = b.randomString /\ a.expiry = b.expiry)

C7_Witness ==
    /\ Returned
    /\ prev # None
    /\ prev.input = input
    /\ prev.built.expiry = built.expiry
    /\ prev.built.randomString # built.randomString
    /\ prev.built.directLink # built.directLink

\* C8: the second request always goes to an absolute URL, and when the
\* fragment captured from the page is not an absolute URL, to one whose
\* origin is the service origin.
C8_PassMd5UrlResolved ==
    Len(requests) = 2 =>
        LET fragment == _extractData(PASS_MD5_PATTERN, content)
            target == requests[2].url
        IN  /\ IsAbsoluteUrl(target)
            /\ ~IsAbsoluteUrl(fragment)
                  => Origin(target) = DOODSTREAM_BASE_URL

\* the last non-empty segment of a path, or "video"
LastNonEmptySegment(path) ==
    LET parts == split(path, "/")
        full == {i \in 1..Len(parts) : parts[i] # <<>>}
    IN  IF full = {} THEN <<"v", "i", "d", "e", "o">> ELSE parts[Max(full)]

\* C9: the object getMetadata returns has the name doodstream_<S>.mp4, S
\* being the last non-empty path segment of the embed URL, or "video" when
\* the path has none, the quality "Unknown" and the size null.
C9_MetadataName ==
    (Returned /\ api = "getMetadata") =>
        /\ result.value.name =
              <<"d", "o", "o", "d", "s", "t", "r", "e", "a", "m", "_">>
                 \o LastNonEmptySegment(pathname(input))
                 \o <<".", "m", "p", "4">>
        /\ result.value.quality = "Unknown"
        /\ result.value.size = Null

\* C10: every invocation that is awaiting a response or a body settles in
\* the end, given only that armed timers fire.
C10_EventuallySettles == InFlight ~> (pc = "done")

=============================================================================
